---------------------------- MODULE Spec2Model ----------------------------
(***************************************************************************)
(* A model of rate_limited_service (src/src/main.rs): three warp handlers  *)
(* that gate requests through RateLimiter::log_usage, a fixed-window       *)
(* counter kept in a DashMap keyed by sha256(route + bearer_token).        *)
(*                                                                         *)
(* Time is counted in seconds.  A request is served by one thread in       *)
(* several steps, one per access to shared state: the handler's entry      *)
(* (credential extraction, key derivation and the read of Utc::now()),     *)
(* the get_mut lookup, and then either the guarded branch or the insert.   *)
(***************************************************************************)
EXTENDS Naturals, Integers, Sequences, FiniteSets, TLC

(***************************************************************************)
(* Bounds of the model: the requests the clients issue in a run, and the   *)
(* times the clock moves, for the whole service (Spec), for one            *)
(* endpoint under load (SpecBurst), for two endpoints used with two        *)
(* credentials (SpecPairs) and for one endpoint used with two credentials  *)
(* (SpecKeys).                                                             *)
(***************************************************************************)
MaxRequests == 2
MaxTicks == 1
MaxBurst == 5
MaxBurstTicks == 1
MaxPairCalls == 6
MaxKeyCalls == 5

(***************************************************************************)
(* The request-handling threads of the runtime, and the shards of the      *)
(* DashMap (line 111); a shard's lock covers every key hashed into it.     *)
(***************************************************************************)
Threads == {"t1", "t2"}
Shards == {1, 2}

(***************************************************************************)
(* Program constants (main.rs lines 8-14).                                 *)
(***************************************************************************)
POST_VAULT_ROUTE == "POST /vault"
GET_VAULT_ITEMS_ROUTE == "GET /vault/items"
PUT_VAULT_ITEM_ROUTE == "PUT /vault/items/<:id>"

POST_VAULT_RATE_LIMIT == 3
GET_VAULT_ITEMS_RATE_LIMIT == 1200
PUT_VAULT_ITEM_RATE_LIMIT == 60

(***************************************************************************)
(* Inputs.  A header value is a byte string that to_str accepts (visible   *)
(* ASCII) or rejects; a header map holds an Authorization value or none.   *)
(* The ids and tokens are chosen so that the same characters can be split  *)
(* between the id and the token in two ways.                               *)
(***************************************************************************)
Tokens == {"b", "1b"}
Ids == {"1", "11"}

HeaderValues ==
    {[bytes |-> tk, ascii |-> TRUE] : tk \in Tokens}
        \cup {[bytes |-> "\\xff", ascii |-> FALSE]}
HeaderMaps == {<<>>} \cup {[Authorization |-> v] : v \in HeaderValues}

(***************************************************************************)
(* chrono: Duration::minutes, and the seconds by which the value Utc::now  *)
(* returns may differ from one reading to the next.  Utc::now reads the    *)
(* system's wall clock, which runs forward and can also be set back: a     *)
(* step sets it back a minute, or takes it to the very end of a window     *)
(* opened at the last reading, or just past that end.                      *)
(***************************************************************************)
minutes(n) == n * 60

TickSteps == {-minutes(1), minutes(1), minutes(1) + 1}

(***************************************************************************)
(* RateLimit::new (lines 155-161): the duration defaults to one minute.    *)
(***************************************************************************)
RateLimit_new(limit) == [limit |-> limit, duration |-> minutes(1)]

(***************************************************************************)
(* RateLimitedError::new (lines 170-172).                                  *)
(***************************************************************************)
RateLimitedError_new(refresh_time) == [time_when_refreshed |-> refresh_time]

(***************************************************************************)
(* Result<(i32, DateTime<Utc>), RateLimitedError>.                         *)
(***************************************************************************)
Ok(pair) == [tag |-> "Ok", val |-> pair]
Err(err) == [tag |-> "Err", val |-> err]

(***************************************************************************)
(* sha256::digest: a one-way digest, taken to be injective on its input.   *)
(* The digest is a value of its own kind, never the input string itself.   *)
(***************************************************************************)
digest(input) == <<"sha256", input>>

(***************************************************************************)
(* A faulty variant of hashed_key_of: the key is derived from the route    *)
(* alone.                                                                  *)
(***************************************************************************)
hashed_key_of_route_only(route, bearer_token) == digest(route)

(***************************************************************************)
(* Line 121: the key is the digest of the route followed directly by the   *)
(* bearer token.                                                           *)
(***************************************************************************)
hashed_key_of(route, bearer_token) == digest(route \o bearer_token)

(***************************************************************************)
(* A faulty variant of bearer_token_of: a missing or unreadable header is  *)
(* taken as the empty token.                                               *)
(***************************************************************************)
bearer_token_of_or_default(headers) ==
    IF "Authorization" \in DOMAIN headers /\ headers.Authorization.ascii
    THEN <<headers.Authorization.bytes>>
    ELSE <<"">>

(***************************************************************************)
(* Lines 53-56: headers.get("Authorization").map(|token| token.to_str()).  *)
(* <<token>> for Some(Ok(token)), <<>> for every other case.               *)
(***************************************************************************)
bearer_token_of(headers) ==
    IF "Authorization" \in DOMAIN headers /\ headers.Authorization.ascii
    THEN <<headers.Authorization.bytes>>
    ELSE <<>>

(***************************************************************************)
(* The replies (lines 90-107).  rate_limited_reply ignores its argument.   *)
(***************************************************************************)
unauthorized_reply == [status |-> 401, headers |-> {}]

ok_reply(requests_remaining) ==
    [status |-> 200, headers |-> {<<"X-Ratelimit-Remaining", requests_remaining>>}]

rate_limited_reply(err) == [status |-> 429, headers |-> {}]

(***************************************************************************)
(* A faulty variant of reply_of: a refusal is reported as a success with   *)
(* nothing remaining.                                                      *)
(***************************************************************************)
reply_of_always_ok(result) ==
    IF result.tag = "Ok" THEN ok_reply(result.val[1]) ELSE ok_reply(0)

(***************************************************************************)
(* Lines 59-60, 72-73, 85-86: the reply a handler builds from the result   *)
(* of log_usage.                                                           *)
(***************************************************************************)
reply_of(result) ==
    IF result.tag = "Ok" THEN ok_reply(result.val[1])
    ELSE rate_limited_reply(result.val)

(***************************************************************************)
(* Faulty variants of guarded_branch, used to show that the properties     *)
(* below depend on it: one that counts without testing count > 0, and one  *)
(* whose refusal starts a new window.                                      *)
(***************************************************************************)
guarded_branch_underflow(pair, now, rate_limit) ==
    IF pair[2] < now
    THEN [pair |-> <<rate_limit.limit - 1, now + rate_limit.duration>>,
          result |-> Ok(<<rate_limit.limit - 1, now + rate_limit.duration>>)]
    ELSE [pair |-> <<pair[1] - 1, pair[2]>>,
          result |-> Ok(<<pair[1] - 1, pair[2]>>)]

guarded_branch_deny_extends(pair, now, rate_limit) ==
    IF pair[2] < now
    THEN [pair |-> <<rate_limit.limit - 1, now + rate_limit.duration>>,
          result |-> Ok(<<rate_limit.limit - 1, now + rate_limit.duration>>)]
    ELSE IF pair[1] > 0
    THEN [pair |-> <<pair[1] - 1, pair[2]>>,
          result |-> Ok(<<pair[1] - 1, pair[2]>>)]
    ELSE [pair |-> <<0, now + rate_limit.duration>>,
          result |-> Err(RateLimitedError_new(now + rate_limit.duration))]

(***************************************************************************)
(* Three more faulty variants of guarded_branch: one that returns the new  *)
(* count without writing it back, one whose test of the window is          *)
(* reversed, and one that never starts a new window.                       *)
(***************************************************************************)
guarded_branch_no_store(pair, now, rate_limit) ==
    IF pair[2] < now
    THEN [pair |-> <<rate_limit.limit - 1, now + rate_limit.duration>>,
          result |-> Ok(<<rate_limit.limit - 1, now + rate_limit.duration>>)]
    ELSE IF pair[1] > 0
    THEN [pair |-> pair,
          result |-> Ok(<<pair[1] - 1, pair[2]>>)]
    ELSE [pair |-> pair,
          result |-> Err(RateLimitedError_new(pair[2]))]

guarded_branch_reversed(pair, now, rate_limit) ==
    IF now < pair[2]
    THEN [pair |-> <<rate_limit.limit - 1, now + rate_limit.duration>>,
          result |-> Ok(<<rate_limit.limit - 1, now + rate_limit.duration>>)]
    ELSE IF pair[1] > 0
    THEN [pair |-> <<pair[1] - 1, pair[2]>>,
          result |-> Ok(<<pair[1] - 1, pair[2]>>)]
    ELSE [pair |-> pair,
          result |-> Err(RateLimitedError_new(pair[2]))]

guarded_branch_never_refreshes(pair, now, rate_limit) ==
    IF pair[1] > 0
    THEN [pair |-> <<pair[1] - 1, pair[2]>>,
          result |-> Ok(<<pair[1] - 1, pair[2]>>)]
    ELSE [pair |-> pair,
          result |-> Err(RateLimitedError_new(pair[2]))]

(***************************************************************************)
(* Lines 125-139: the branch taken while the guard returned by get_mut is  *)
(* held.  Gives the pair left in the map and the result returned.          *)
(***************************************************************************)
guarded_branch(pair, now, rate_limit) ==
    LET count == pair[1]
        refresh_time == pair[2]
    IN  IF refresh_time < now
        THEN [pair |-> <<rate_limit.limit - 1, now + rate_limit.duration>>,
              result |-> Ok(<<rate_limit.limit - 1, now + rate_limit.duration>>)]
        ELSE IF count > 0
        THEN [pair |-> <<count - 1, refresh_time>>,
              result |-> Ok(<<count - 1, refresh_time>>)]
        ELSE [pair |-> pair,
              result |-> Err(RateLimitedError_new(refresh_time))]

(***************************************************************************)
(* A faulty variant of vacant_branch: the first request of a key is not    *)
(* counted against the window it opens.                                    *)
(***************************************************************************)
vacant_branch_uncounted(now, rate_limit) ==
    [pair |-> <<rate_limit.limit, now + rate_limit.duration>>,
     result |-> Ok(<<rate_limit.limit - 1, now + rate_limit.duration>>)]

(***************************************************************************)
(* Lines 142-143: the pair inserted when get_mut found nothing, and the    *)
(* result returned.                                                        *)
(***************************************************************************)
vacant_branch(now, rate_limit) ==
    [pair |-> <<rate_limit.limit - 1, now + rate_limit.duration>>,
     result |-> Ok(<<rate_limit.limit - 1, now + rate_limit.duration>>)]

(***************************************************************************)
(* State.                                                                  *)
(*   usage_counter  the DashMap: hashed key -> (count, refresh_time)       *)
(*   shard_of       the shard DashMap's hasher puts each key in, fixed     *)
(*                  when the key is first hashed                           *)
(*   guard          per shard, the thread holding its write lock, or       *)
(*                  "free"                                                 *)
(*   clock          the value Utc::now() returns                           *)
(*   ticks          the times the clock may still move                     *)
(*   quota          the requests the clients may still issue               *)
(*   pc, frame      each thread's position and the locals of its request   *)
(*   hist           the completed requests, in order of completion         *)
(* and, to compare a run with the run the same requests make when the      *)
(* calls of some (route, credential) pairs are left out:                   *)
(*   watched        the pairs whose calls are left out                     *)
(*   alone          the DashMap of the run without those calls             *)
(***************************************************************************)
VARIABLES usage_counter, shard_of, guard, clock, ticks, quota, pc, frame, hist,
          watched, alone

vars == <<usage_counter, shard_of, guard, clock, ticks, quota, pc, frame, hist,
          watched, alone>>

NoFrame == <<>>

(***************************************************************************)
(* RateLimiter::new (lines 115-117) and the start of the server, with the  *)
(* requests and ticks a run may use.                                       *)
(***************************************************************************)
Start(requests, advances, left_out) ==
    /\ usage_counter = <<>>
    /\ shard_of = <<>>
    /\ guard = [s \in Shards |-> "free"]
    /\ clock = 0
    /\ ticks = advances
    /\ quota = requests
    /\ pc = [t \in Threads |-> "idle"]
    /\ frame = [t \in Threads |-> NoFrame]
    /\ hist = <<>>
    /\ watched = left_out
    /\ alone = <<>>

(***************************************************************************)
(* The wall clock moves: it advances, or it is set back.  log_usage reads   *)
(* the clock when its request arrives (line 122), so the clock's moves are *)
(* followed while a request is still to arrive.                            *)
(***************************************************************************)
Tick ==
    /\ ticks > 0
    /\ quota > 0
    /\ \E d \in TickSteps : clock' = clock + d
    /\ ticks' = ticks - 1
    /\ UNCHANGED <<usage_counter, shard_of, guard, quota, pc, frame, hist,
                   watched, alone>>

(***************************************************************************)
(* A request ends: its record joins the history.  call holds the call of   *)
(* log_usage the handler made, if it made one; pre is the number of        *)
(* requests that had completed when this one arrived.                      *)
(***************************************************************************)
Completed(handler, id, headers, call, reply, pre) ==
    [handler |-> handler, id |-> id, headers |-> headers,
     call |-> call, reply |-> reply, pre |-> pre]

(***************************************************************************)
(* DashMap's determine_map: shards are interchangeable, so a new key goes  *)
(* to a shard already in use or to the first unused one.                   *)
(***************************************************************************)
ShardChoices ==
    LET used == {shard_of[k] : k \in DOMAIN shard_of}
        unused == Shards \ used
    IN  used \cup {s \in unused : \A u \in unused : s <= u}

(***************************************************************************)
(* A thread takes the next request, if the clients still issue one.        *)
(***************************************************************************)
Accept(t) ==
    /\ pc[t] = "idle"
    /\ quota > 0
    /\ quota' = quota - 1

(***************************************************************************)
(* Lines 55, 68, 81: without a usable Authorization header the handler     *)
(* returns unauthorized_reply at once.                                     *)
(***************************************************************************)
Unauthorized(t, handler, id, headers) ==
    /\ hist' = Append(hist, Completed(handler, id, headers, <<>>,
                                      unauthorized_reply, Len(hist)))
    /\ UNCHANGED <<usage_counter, shard_of, guard, clock, ticks, pc, frame,
                   watched, alone>>

(***************************************************************************)
(* Lines 119-122: the start of log_usage, which hashes the key and reads   *)
(* the clock.                                                              *)
(***************************************************************************)
log_usage(t, handler, id, headers, route, bearer_token, rate_limit) ==
    LET key == hashed_key_of(route, bearer_token)
    IN  /\ frame' = [frame EXCEPT ![t] =
                [handler |-> handler, id |-> id, headers |-> headers,
                 route |-> route, bearer_token |-> bearer_token,
                 rate_limit |-> rate_limit,
                 hashed_key |-> key, now |-> clock,
                 pre |-> Len(hist), found_alone |-> FALSE]]
        /\ pc' = [pc EXCEPT ![t] = "get_mut"]
        /\ IF key \in DOMAIN shard_of
           THEN shard_of' = shard_of
           ELSE \E s \in ShardChoices : shard_of' = (key :> s) @@ shard_of
        /\ UNCHANGED <<usage_counter, guard, clock, ticks, hist, watched, alone>>

(***************************************************************************)
(* Lines 52-58: POST /vault.                                               *)
(***************************************************************************)
post_vault(t, headers) ==
    /\ Accept(t)
    /\ IF bearer_token_of(headers) = <<>>
       THEN Unauthorized(t, "post_vault", "", headers)
       ELSE log_usage(t, "post_vault", "", headers, POST_VAULT_ROUTE,
                      bearer_token_of(headers)[1],
                      RateLimit_new(POST_VAULT_RATE_LIMIT))

(***************************************************************************)
(* Lines 65-71: GET /vault/items.                                          *)
(***************************************************************************)
get_vault_items(t, headers) ==
    /\ Accept(t)
    /\ IF bearer_token_of(headers) = <<>>
       THEN Unauthorized(t, "get_vault_items", "", headers)
       ELSE log_usage(t, "get_vault_items", "", headers, GET_VAULT_ITEMS_ROUTE,
                      bearer_token_of(headers)[1],
                      RateLimit_new(GET_VAULT_ITEMS_RATE_LIMIT))

(***************************************************************************)
(* Lines 78-84: PUT /vault/items/<id>; the id of the path is appended to   *)
(* the route passed to log_usage.                                          *)
(***************************************************************************)
put_vault_item(t, headers, id) ==
    /\ Accept(t)
    /\ IF bearer_token_of(headers) = <<>>
       THEN Unauthorized(t, "put_vault_item", id, headers)
       ELSE log_usage(t, "put_vault_item", id, headers, PUT_VAULT_ITEM_ROUTE \o id,
                      bearer_token_of(headers)[1],
                      RateLimit_new(PUT_VAULT_ITEM_RATE_LIMIT))

(***************************************************************************)
(* Whether the call a thread is making is one the other run leaves out.    *)
(***************************************************************************)
LeftOut(t) == <<frame[t].route, frame[t].bearer_token>> \in watched

(***************************************************************************)
(* A faulty variant of get_mut: one lock guards the whole map, so the      *)
(* lookup waits while any shard's guard is held.                           *)
(***************************************************************************)
get_mut_whole_map(t) ==
    /\ pc[t] = "get_mut"
    /\ \A s \in Shards : guard[s] = "free"
    /\ IF frame[t].hashed_key \in DOMAIN usage_counter
       THEN /\ guard' = [guard EXCEPT ![shard_of[frame[t].hashed_key]] = t]
            /\ pc' = [pc EXCEPT ![t] = "guarded"]
       ELSE /\ guard' = guard
            /\ pc' = [pc EXCEPT ![t] = "vacant"]
    /\ frame' = [frame EXCEPT ![t].found_alone =
                    ~LeftOut(t) /\ frame[t].hashed_key \in DOMAIN alone]
    /\ UNCHANGED <<usage_counter, shard_of, clock, ticks, quota, hist,
                   watched, alone>>

(***************************************************************************)
(* Line 124: get_mut takes the write lock of the key's shard.  With an     *)
(* entry for the key it returns a guard that keeps the lock; without one   *)
(* it returns None and the lock is released.                               *)
(***************************************************************************)
get_mut(t) ==
    /\ pc[t] = "get_mut"
    /\ guard[shard_of[frame[t].hashed_key]] = "free"
    /\ IF frame[t].hashed_key \in DOMAIN usage_counter
       THEN /\ guard' = [guard EXCEPT ![shard_of[frame[t].hashed_key]] = t]
            /\ pc' = [pc EXCEPT ![t] = "guarded"]
       ELSE /\ guard' = guard
            /\ pc' = [pc EXCEPT ![t] = "vacant"]
    /\ frame' = [frame EXCEPT ![t].found_alone =
                    ~LeftOut(t) /\ frame[t].hashed_key \in DOMAIN alone]
    /\ UNCHANGED <<usage_counter, shard_of, clock, ticks, quota, hist,
                   watched, alone>>

(***************************************************************************)
(* The same call in the run without the watched calls: the branch it takes *)
(* there, on the pair that run holds.                                      *)
(***************************************************************************)
AloneBranch(t) ==
    IF frame[t].found_alone
    THEN guarded_branch(alone[frame[t].hashed_key], frame[t].now, frame[t].rate_limit)
    ELSE vacant_branch(frame[t].now, frame[t].rate_limit)

(***************************************************************************)
(* The end of log_usage and of the handler: the result becomes the reply.  *)
(* seen is the pair the call found in the map, if it found one.            *)
(***************************************************************************)
Return(t, seen, result) ==
    /\ hist' = Append(hist,
            Completed(frame[t].handler, frame[t].id, frame[t].headers,
                      <<[route |-> frame[t].route,
                         bearer_token |-> frame[t].bearer_token,
                         rate_limit |-> frame[t].rate_limit,
                         hashed_key |-> frame[t].hashed_key,
                         now |-> frame[t].now,
                         seen |-> seen,
                         result |-> result,
                         alone |-> IF LeftOut(t) THEN <<>>
                                   ELSE <<AloneBranch(t).result>>]>>,
                      reply_of(result), frame[t].pre))
    /\ alone' = IF LeftOut(t) THEN alone
                ELSE (frame[t].hashed_key :> AloneBranch(t).pair) @@ alone
    /\ pc' = [pc EXCEPT ![t] = "idle"]
    /\ frame' = [frame EXCEPT ![t] = NoFrame]

(***************************************************************************)
(* A faulty variant of guarded: the guard outlives the call that took it.  *)
(***************************************************************************)
guarded_keeps_guard(t) ==
    /\ pc[t] = "guarded"
    /\ LET key == frame[t].hashed_key
           out == guarded_branch(usage_counter[key], frame[t].now, frame[t].rate_limit)
       IN  /\ usage_counter' = [usage_counter EXCEPT ![key] = out.pair]
           /\ Return(t, <<usage_counter[key]>>, out.result)
    /\ UNCHANGED <<shard_of, guard, clock, ticks, quota, watched>>

(***************************************************************************)
(* Lines 125-139: under the guard, refresh, count or refuse; the guard is  *)
(* dropped on return.                                                      *)
(***************************************************************************)
guarded(t) ==
    /\ pc[t] = "guarded"
    /\ LET key == frame[t].hashed_key
           out == guarded_branch(usage_counter[key], frame[t].now, frame[t].rate_limit)
       IN  /\ usage_counter' = [usage_counter EXCEPT ![key] = out.pair]
           /\ guard' = [guard EXCEPT ![shard_of[key]] = "free"]
           /\ Return(t, <<usage_counter[key]>>, out.result)
    /\ UNCHANGED <<shard_of, clock, ticks, quota, watched>>

(***************************************************************************)
(* A faulty variant of vacant: the map is replaced by one that holds the   *)
(* new pair only.                                                          *)
(***************************************************************************)
vacant_clears_map(t) ==
    /\ pc[t] = "vacant"
    /\ guard[shard_of[frame[t].hashed_key]] = "free"
    /\ LET key == frame[t].hashed_key
           out == vacant_branch(frame[t].now, frame[t].rate_limit)
       IN  /\ usage_counter' = (key :> out.pair)
           /\ Return(t, <<>>, out.result)
    /\ UNCHANGED <<shard_of, guard, clock, ticks, quota, watched>>

(***************************************************************************)
(* Lines 140-144: insert takes the shard's write lock, stores the pair     *)
(* (replacing any pair stored meanwhile) and releases the lock.            *)
(***************************************************************************)
vacant(t) ==
    /\ pc[t] = "vacant"
    /\ guard[shard_of[frame[t].hashed_key]] = "free"
    /\ LET key == frame[t].hashed_key
           out == vacant_branch(frame[t].now, frame[t].rate_limit)
       IN  /\ usage_counter' = (key :> out.pair) @@ usage_counter
           /\ Return(t, <<>>, out.result)
    /\ UNCHANGED <<shard_of, guard, clock, ticks, quota, watched>>

(***************************************************************************)
(* The whole service: every handler, every header map, every id.           *)
(***************************************************************************)
Init == Start(MaxRequests, MaxTicks, {})

Next ==
    \/ Tick
    \/ \E t \in Threads, headers \in HeaderMaps : post_vault(t, headers)
    \/ \E t \in Threads, headers \in HeaderMaps : get_vault_items(t, headers)
    \/ \E t \in Threads, headers \in HeaderMaps, id \in Ids : put_vault_item(t, headers, id)
    \/ \E t \in Threads : get_mut(t)
    \/ \E t \in Threads : guarded(t)
    \/ \E t \in Threads : vacant(t)

Spec == Init /\ [][Next]_vars

(***************************************************************************)
(* One endpoint under load: every request is a POST /vault carrying the    *)
(* same credential.                                                        *)
(***************************************************************************)
BurstHeaders == [Authorization |-> [bytes |-> "b", ascii |-> TRUE]]

InitBurst == Start(MaxBurst, MaxBurstTicks, {})

NextBurst ==
    \/ Tick
    \/ \E t \in Threads : post_vault(t, BurstHeaders)
    \/ \E t \in Threads : get_mut(t)
    \/ \E t \in Threads : guarded(t)
    \/ \E t \in Threads : vacant(t)

SpecBurst == InitBurst /\ [][NextBurst]_vars

(***************************************************************************)
(* Two endpoints used with two credentials, at one instant: one thread     *)
(* serves the requests of (POST /vault, "b"), whose calls are the ones     *)
(* left out of the other run, while the other thread serves those of       *)
(* (POST /vault, "1b") and of (GET /vault/items, "b").                     *)
(***************************************************************************)
WatchedPair == <<POST_VAULT_ROUTE, "b">>

HeadersOf(tk) == [Authorization |-> [bytes |-> tk, ascii |-> TRUE]]

InitPairs == Start(MaxPairCalls, 0, {WatchedPair})

NextPairs ==
    \/ post_vault("t1", HeadersOf("b"))
    \/ post_vault("t2", HeadersOf("1b"))
    \/ get_vault_items("t2", HeadersOf("b"))
    \/ \E t \in Threads : get_mut(t)
    \/ \E t \in Threads : guarded(t)
    \/ \E t \in Threads : vacant(t)

SpecPairs == InitPairs /\ [][NextPairs]_vars

(***************************************************************************)
(* One endpoint used with two credentials, at one instant: either thread   *)
(* serves a POST /vault of either credential, so calls on the same key and *)
(* on different keys, in the same shard or not, run side by side.          *)
(***************************************************************************)
InitKeys == Start(MaxKeyCalls, 0, {})

NextKeys ==
    \/ \E t \in Threads, tk \in Tokens : post_vault(t, HeadersOf(tk))
    \/ \E t \in Threads : get_mut(t)
    \/ \E t \in Threads : guarded(t)
    \/ \E t \in Threads : vacant(t)

SpecKeys == InitKeys /\ [][NextKeys]_vars

(***************************************************************************)
(* The same under the scheduler of the runtime: a thread that can take its *)
(* next step, the lock it needs being free, eventually takes it.           *)
(***************************************************************************)
FairKeys ==
    /\ SpecKeys
    /\ \A t \in Threads :
          WF_vars(get_mut(t)) /\ WF_vars(guarded(t)) /\ WF_vars(vacant(t))

(***************************************************************************)
(* Reading the history.                                                    *)
(***************************************************************************)
Calls == {i \in 1..Len(hist) : hist[i].call # <<>>}

CallOf(i) == hist[i].call[1]

KeysCalled == {CallOf(i).hashed_key : i \in Calls}

KeyCalls(k) == {i \in Calls : CallOf(i).hashed_key = k}

Allowed(i) == CallOf(i).result.tag = "Ok"

Remaining(i) == CallOf(i).result.val[1]

RetryAfter(i) == CallOf(i).result.val.time_when_refreshed

Min(a, b) == IF a <= b THEN a ELSE b

\* The calls of key k up to the i-th entry of the history were made one
\* after the other (each arrived after the one before it had completed) and
\* all observed the same time.
Quiet(i, k) ==
    \A j \in KeyCalls(k) : j <= i =>
        /\ CallOf(j).now = CallOf(i).now
        /\ \A h \in KeyCalls(k) : h < j => hist[j].pre >= h

Rank(i, k) == Cardinality({j \in KeyCalls(k) : j <= i})

(***************************************************************************)
(* C1: on a key with no record, sequential calls that all observe the same *)
(* time t0 are allowed with remaining L-1, L-2, ..., 0 in order, and the   *)
(* call after those is denied with retryAfter = t0 + W.                    *)
(***************************************************************************)
C1_SequentialBurst ==
    \A k \in KeysCalled : \A i \in KeyCalls(k) :
        Quiet(i, k) =>
            LET L == CallOf(i).rate_limit.limit
                W == CallOf(i).rate_limit.duration
            IN  IF Rank(i, k) <= L
                THEN Allowed(i) /\ Remaining(i) = L - Rank(i, k)
                ELSE ~Allowed(i) /\ RetryAfter(i) = CallOf(i).now + W

C1_Witness ==
    \E k \in KeysCalled : \E i \in KeyCalls(k) :
        /\ Quiet(i, k)
        /\ Rank(i, k) = CallOf(i).rate_limit.limit + 1
        /\ ~Allowed(i)

(***************************************************************************)
(* C2: calls on one previously unseen key that all observe the same time:  *)
(* of N calls exactly min(N, L) are allowed, the remaining values of the   *)
(* allowed calls are L-1, ..., L-min(N, L), each exactly once, and every   *)
(* other call is denied.                                                   *)
(***************************************************************************)
C2_ConcurrentBurst ==
    \A k \in KeysCalled :
        (\A i, j \in KeyCalls(k) : CallOf(i).now = CallOf(j).now) =>
            LET N == Cardinality(KeyCalls(k))
                allows == {i \in KeyCalls(k) : Allowed(i)}
            IN  \A i \in KeyCalls(k) :
                    LET L == CallOf(i).rate_limit.limit
                    IN  /\ Cardinality(allows) = Min(N, L)
                        /\ {Remaining(a) : a \in allows} = (L - Min(N, L))..(L - 1)

(***************************************************************************)
(* C3: a call that finds a record with expiry E and observes now >= E is   *)
(* allowed with remaining L-1 and leaves the record at (L-1, now + W).     *)
(***************************************************************************)
C3_RefreshAtExpiry ==
    [][\A t \in Threads :
          (/\ pc[t] = "guarded"
           /\ pc'[t] = "idle"
           /\ frame[t].now >= usage_counter[frame[t].hashed_key][2])
          => LET L == frame[t].rate_limit.limit
                 W == frame[t].rate_limit.duration
                 fresh == <<L - 1, frame[t].now + W>>
             IN  /\ usage_counter'[frame[t].hashed_key] = fresh
                 /\ hist'[Len(hist')].call[1].result = Ok(fresh)]_vars

(***************************************************************************)
(* C4: a denied call carries the expiry stored in its key's record, and    *)
(* leaves the whole usage store as it was.                                 *)
(***************************************************************************)
C4_DenyLeavesStore ==
    [][\A t \in Threads :
          (/\ pc[t] # "idle"
           /\ pc'[t] = "idle"
           /\ hist'[Len(hist')].call[1].result.tag = "Err")
          => /\ frame[t].hashed_key \in DOMAIN usage_counter
             /\ hist'[Len(hist')].call[1].result.val.time_when_refreshed
                    = usage_counter[frame[t].hashed_key][2]
             /\ usage_counter' = usage_counter]_vars

C4_Witness ==
    \E i \in Calls : ~Allowed(i) /\ hist[i].pre < i - 1

(***************************************************************************)
(* C5: every record in the usage store has remaining in [0, L-1], and so   *)
(* has every allowed call, L being the limit of the calls on that key.     *)
(***************************************************************************)
C5_RemainingInRange ==
    /\ \A i \in Calls :
          LET L == CallOf(i).rate_limit.limit
              k == CallOf(i).hashed_key
          IN  /\ Allowed(i) => Remaining(i) \in 0..(L - 1)
              /\ k \in DOMAIN usage_counter => usage_counter[k][1] \in 0..(L - 1)
    /\ \A t \in Threads :
          (pc[t] # "idle" /\ frame[t].hashed_key \in DOMAIN usage_counter)
              => usage_counter[frame[t].hashed_key][1]
                    \in 0..(frame[t].rate_limit.limit - 1)

C5_Witness ==
    \E i \in Calls :
        /\ Allowed(i) /\ Remaining(i) = 0
        /\ usage_counter[CallOf(i).hashed_key][1] = 0
        /\ \E t \in Threads : pc[t] = "guarded"

(***************************************************************************)
(* C6: for routes A # B and credentials X # Y, the calls for (A, Y) and    *)
(* for (B, X) have the outcomes they have in the run in which the calls    *)
(* for (A, X) are never made, however many calls for (A, X) are made       *)
(* before them or interleaved with them.                                   *)
(***************************************************************************)
Beside(i, pair) ==
    \/ CallOf(i).route = pair[1] /\ CallOf(i).bearer_token # pair[2]
    \/ CallOf(i).route # pair[1] /\ CallOf(i).bearer_token = pair[2]

C6_Isolation ==
    \A pair \in watched : \A i \in Calls :
        Beside(i, pair) => CallOf(i).alone = <<CallOf(i).result>>

\* (A, X) has been exhausted and refused, and calls for both (A, Y) and
\* (B, X) were made after that.
C6_Witness ==
    \E pair \in watched : \E i, j, h \in Calls :
        /\ <<CallOf(h).route, CallOf(h).bearer_token>> = pair
        /\ ~Allowed(h)
        /\ h < i /\ h < j
        /\ CallOf(i).route = pair[1] /\ CallOf(i).bearer_token # pair[2]
        /\ CallOf(j).route # pair[1] /\ CallOf(j).bearer_token = pair[2]

(***************************************************************************)
(* C7: distinct (route, credential) pairs passed to log_usage get distinct *)
(* store keys.                                                             *)
(***************************************************************************)
C7_KeysInjective ==
    \A i, j \in Calls :
        <<CallOf(i).route, CallOf(i).bearer_token>>
                # <<CallOf(j).route, CallOf(j).bearer_token>>
            => CallOf(i).hashed_key # CallOf(j).hashed_key

(***************************************************************************)
(* C8: the PUT /vault/items/<id> requests of one credential are counted    *)
(* against one usage record, whatever ids they carry.                      *)
(***************************************************************************)
C8_OneRecordPerEndpoint ==
    \A i, j \in Calls :
        (/\ hist[i].handler = "put_vault_item"
         /\ hist[j].handler = "put_vault_item"
         /\ CallOf(i).bearer_token = CallOf(j).bearer_token)
            => CallOf(i).hashed_key = CallOf(j).hashed_key

(***************************************************************************)
(* C9: the outcomes of the calls on a key are those the four-branch        *)
(* sequential algorithm (create, reset when expiry <= now, count, refuse)  *)
(* gives for the same calls in some order that keeps every call after the  *)
(* calls that had completed when it arrived.                               *)
(***************************************************************************)
decide(record, now, rate_limit) ==
    LET fresh == <<rate_limit.limit - 1, now + rate_limit.duration>>
    IN  IF record = <<>> THEN [pair |-> fresh, allow |-> TRUE, value |-> fresh[1]]
        ELSE IF record[1][2] <= now
        THEN [pair |-> fresh, allow |-> TRUE, value |-> fresh[1]]
        ELSE IF record[1][1] > 0
        THEN [pair |-> <<record[1][1] - 1, record[1][2]>>, allow |-> TRUE,
              value |-> record[1][1] - 1]
        ELSE [pair |-> record[1], allow |-> FALSE, value |-> record[1][2]]

Outcome(i) ==
    IF Allowed(i) THEN [allow |-> TRUE, value |-> Remaining(i)]
    ELSE [allow |-> FALSE, value |-> RetryAfter(i)]

RECURSIVE Serializable(_, _)
Serializable(S, record) ==
    \/ S = {}
    \/ \E i \in S :
          /\ \A j \in S : j > hist[i].pre
          /\ LET d == decide(record, CallOf(i).now, CallOf(i).rate_limit)
             IN  /\ Outcome(i) = [allow |-> d.allow, value |-> d.value]
                 /\ Serializable(S \ {i}, <<d.pair>>)

C9_Linearizable == \A k \in KeysCalled : Serializable(KeyCalls(k), <<>>)

(***************************************************************************)
(* C10: a request without an Authorization header, or with one that is not *)
(* a valid string, is answered 401 without a call of log_usage, and the    *)
(* usage store is unchanged by it.                                         *)
(***************************************************************************)
NoCredential(headers) ==
    "Authorization" \notin DOMAIN headers \/ ~headers.Authorization.ascii

C10_UnauthorizedBeforeCore ==
    [][/\ \A t \in Threads : pc'[t] # "idle" => ~NoCredential(frame'[t].headers)
       /\ (Len(hist') > Len(hist) /\ NoCredential(hist'[Len(hist')].headers))
            => /\ hist'[Len(hist')].reply.status = 401
               /\ hist'[Len(hist')].call = <<>>
               /\ pc' = pc
               /\ usage_counter' = usage_counter]_vars

\* A request without the header and one with an unreadable header, to two
\* different handlers, have been answered.
C10_Witness ==
    \E i, j \in 1..Len(hist) :
        /\ hist[i].handler # hist[j].handler
        /\ "Authorization" \notin DOMAIN hist[i].headers
        /\ "Authorization" \in DOMAIN hist[j].headers
        /\ ~hist[j].headers.Authorization.ascii
        /\ hist[i].reply.status = 401 /\ hist[j].reply.status = 401

(***************************************************************************)
(* C11: a request that carries a credential is answered 200, with the      *)
(* remaining value log_usage returned in X-Ratelimit-Remaining, exactly    *)
(* when log_usage allowed it, and 429 exactly when log_usage denied it.    *)
(***************************************************************************)
C11_ReplyFollowsResult ==
    \A i \in Calls :
        /\ hist[i].reply.status \in {200, 429}
        /\ hist[i].reply.status = 200 <=> Allowed(i)
        /\ Allowed(i) =>
              hist[i].reply.headers = {<<"X-Ratelimit-Remaining", Remaining(i)>>}

C11_Witness ==
    \E i, j \in Calls :
        /\ Allowed(i) /\ Remaining(i) = 0 /\ hist[i].reply.status = 200
        /\ ~Allowed(j) /\ hist[j].reply.status = 429

(***************************************************************************)
(* C12: once a record exists for a key, no call replaces it through the    *)
(* insert of the create branch.                                            *)
(***************************************************************************)
C12_CreateOnlyOnce ==
    [][\A t \in Threads :
          (pc[t] = "vacant" /\ pc'[t] = "idle")
              => frame[t].hashed_key \notin DOMAIN usage_counter]_vars

(***************************************************************************)
(* C13: from a record with remaining r, calls on its key that all observe  *)
(* a time before its expiry, with no create-branch call completing among   *)
(* them, are allowed with remaining r-1, r-2, ..., 0, one value each, and  *)
(* denied after that; with r = 0 none is allowed.                          *)
(***************************************************************************)
Found(i) == CallOf(i).seen # <<>>

\* The calls on the key of call a, from a up to b, all found a record and
\* observed a time before the expiry call a found.
Run(a, b) ==
    /\ a <= b
    /\ CallOf(a).hashed_key = CallOf(b).hashed_key
    /\ Found(a)
    /\ \A j \in KeyCalls(CallOf(a).hashed_key) :
          (a <= j /\ j <= b) => Found(j) /\ CallOf(j).now < CallOf(a).seen[1][2]

Place(a, b) ==
    Cardinality({j \in KeyCalls(CallOf(a).hashed_key) : a <= j /\ j <= b})

C13_ExistingRecordBurst ==
    \A a, b \in Calls :
        Run(a, b) =>
            LET r == CallOf(a).seen[1][1]
            IN  IF Place(a, b) <= r
                THEN Allowed(b) /\ Remaining(b) = r - Place(a, b)
                ELSE ~Allowed(b)

\* Two overlapping calls on a record with one request remaining: one is
\* allowed with remaining 0, the other denied.
C13_Witness ==
    \E a, b \in Calls :
        /\ a < b /\ Run(a, b)
        /\ hist[b].pre < a
        /\ CallOf(a).seen[1][1] = 1
        /\ Allowed(a) /\ ~Allowed(b)

(***************************************************************************)
(* C14: once a call for a key has been denied with retryAfter E, no call   *)
(* for that key that observes a time before E is allowed.                  *)
(***************************************************************************)
C14_DeniedUntilExpiry ==
    \A i, j \in Calls :
        (/\ i < j
         /\ CallOf(i).hashed_key = CallOf(j).hashed_key
         /\ ~Allowed(i)
         /\ CallOf(j).now < RetryAfter(i))
            => ~Allowed(j)

(***************************************************************************)
(* C15: a call that finds a record and observes a time before the record's *)
(* expiry (a time before the window was started included) does not start   *)
(* a new window: it is denied, the record unchanged, when the record is    *)
(* exhausted, and otherwise only counts one request.                       *)
(***************************************************************************)
C15_NoRefreshBeforeExpiry ==
    [][\A t \in Threads :
          (/\ pc[t] = "guarded"
           /\ pc'[t] = "idle"
           /\ frame[t].now < usage_counter[frame[t].hashed_key][2])
          => LET old == usage_counter[frame[t].hashed_key]
                 res == hist'[Len(hist')].call[1].result
             IN  IF old[1] = 0
                 THEN /\ res = Err(RateLimitedError_new(old[2]))
                      /\ usage_counter' = usage_counter
                 ELSE /\ res = Ok(<<old[1] - 1, old[2]>>)
                      /\ usage_counter'[frame[t].hashed_key] = <<old[1] - 1, old[2]>>]_vars

\* A call that observed a time before the start of the window it finds is
\* denied on an exhausted record, and a call before the expiry has counted.
C15_Witness ==
    \E i, j \in Calls :
        /\ Found(i) /\ Found(j)
        /\ CallOf(i).now < CallOf(i).seen[1][2] - CallOf(i).rate_limit.duration
        /\ CallOf(i).seen[1][1] = 0 /\ ~Allowed(i)
        /\ CallOf(j).now < CallOf(j).seen[1][2]
        /\ CallOf(j).seen[1][1] > 0 /\ Allowed(j)

(***************************************************************************)
(* C16: the expiry stored for a key never decreases: a step that changes   *)
(* it sets it to a strictly later value.                                   *)
(***************************************************************************)
C16_ExpiryNeverDecreases ==
    [][\A k \in DOMAIN usage_counter :
          k \in DOMAIN usage_counter'
              /\ usage_counter'[k][2] >= usage_counter[k][2]]_vars

(***************************************************************************)
(* C20: a denied call carries a retryAfter, and an allowed call an expiry, *)
(* that is not earlier than the time the call observed.                    *)
(***************************************************************************)
C20_NoNegativeDelay ==
    \A i \in Calls :
        IF Allowed(i)
        THEN CallOf(i).result.val[2] >= CallOf(i).now
        ELSE RetryAfter(i) >= CallOf(i).now

\* A call denied, and a call allowed, at the very instant the record they
\* found expires.
C20_Witness ==
    \E i, j \in Calls :
        /\ ~Allowed(i) /\ RetryAfter(i) = CallOf(i).now
        /\ Allowed(j) /\ Found(j)
        /\ CallOf(j).result.val[2] = CallOf(j).now


(***************************************************************************)
(* C17: under weak fairness of the threads every call of log_usage that    *)
(* was started returns, with Allow or with Deny, whatever calls run beside *)
(* it on the same key or on another; and a shard's guard is held only by a *)
(* thread that is inside the call that took it, between its get_mut and    *)
(* its return.                                                             *)
(***************************************************************************)
GuardWithinCall ==
    \A s \in Shards :
        guard[s] # "free" =>
            /\ pc[guard[s]] = "guarded"
            /\ shard_of[frame[guard[s]].hashed_key] = s

C17_EveryCallReturns ==
    /\ [](GuardWithinCall /\ \A i \in Calls : CallOf(i).result.tag \in {"Ok", "Err"})
    /\ \A t \in Threads : (pc[t] # "idle") ~> (pc[t] = "idle")

\* A call waits for the lock of its key's shard while the thread that holds
\* the guard, on the same key, is about to be denied.
Waits(t, u) ==
    /\ pc[t] = "get_mut" /\ pc[u] = "guarded"
    /\ guard[shard_of[frame[t].hashed_key]] = u
    /\ usage_counter[frame[u].hashed_key][1] = 0

C17_Witness ==
    \E t, u \in Threads :
        /\ Waits(t, u)
        /\ frame[t].hashed_key = frame[u].hashed_key
        /\ \E i \in Calls : Allowed(i)

(***************************************************************************)
(* C18 as stated: while a call on one key holds the guard get_mut gave it, *)
(* a call on any other key can take its next step.                         *)
(***************************************************************************)
CanStep(u) == ENABLED (get_mut(u) \/ guarded(u) \/ vacant(u))

C18_OtherKeysNeverWait ==
    \A t, u \in Threads :
        (/\ pc[t] = "guarded" /\ pc[u] # "idle"
         /\ frame[u].hashed_key # frame[t].hashed_key)
            => CanStep(u)

(***************************************************************************)
(* C18 amended: while a call on one key holds the guard get_mut gave it, a *)
(* call on a key stored in another shard of the map can take its next      *)
(* step.                                                                   *)
(***************************************************************************)
C18_OtherShardsNeverWait ==
    \A t, u \in Threads :
        (/\ pc[t] = "guarded" /\ pc[u] # "idle"
         /\ shard_of[frame[u].hashed_key] # shard_of[frame[t].hashed_key])
            => CanStep(u)

\* A call holds its guard while a call on a stored key of another shard is
\* about to look its key up.
C18_Witness ==
    \E t, u \in Threads :
        /\ pc[t] = "guarded" /\ pc[u] = "get_mut"
        /\ shard_of[frame[u].hashed_key] # shard_of[frame[t].hashed_key]
        /\ frame[u].hashed_key \in DOMAIN usage_counter

(***************************************************************************)
(* C19: a key once stored stays stored, and a step changes or creates the  *)
(* record of a key only as the return of a call whose (route, credential)  *)
(* hashes to that key.                                                     *)
(***************************************************************************)
Returns(t, k) ==
    /\ pc[t] \in {"guarded", "vacant"} /\ pc'[t] = "idle"
    /\ frame[t].hashed_key = k
    /\ k = hashed_key_of(frame[t].route, frame[t].bearer_token)

C19_KeysStayOthersUntouched ==
    [][/\ DOMAIN usage_counter \subseteq DOMAIN usage_counter'
       /\ \A k \in DOMAIN usage_counter' :
             (k \notin DOMAIN usage_counter \/ usage_counter'[k] # usage_counter[k])
                 => \E t \in Threads : Returns(t, k)]_vars

\* Two keys are stored: a call on one has counted a request after a call
\* created the other, and each record is what those calls left.
C19_Witness ==
    /\ Cardinality(DOMAIN usage_counter) = 2
    /\ \E i, j \in Calls :
          /\ i < j
          /\ CallOf(i).hashed_key # CallOf(j).hashed_key
          /\ ~Found(i) /\ Found(j)
          /\ usage_counter[CallOf(i).hashed_key] = CallOf(i).result.val
          /\ usage_counter[CallOf(j).hashed_key] = CallOf(j).result.val

=============================================================================
